---- MODULE Spec2Model ----
(***************************************************************************)
(* Calendar scheduling core (app/model/calendar.py): Reminder, Event, Day  *)
(* and Calendar.  Times of day are minutes since midnight, dates are day   *)
(* numbers, event ids are the positive integers handed out by the id       *)
(* generator.  Calendar.events is the sequence of its entries in insertion *)
(* order; Calendar.days is a function from the recorded dates to their     *)
(* Days, and its scans visit the Days by ascending date: the insertion     *)
(* order of days is not kept, since the scans act only on the Days that    *)
(* hold a given id and no id is ever held by two Days (C8).  Every method  *)
(* is an operator on the calendar value that returns the new calendar      *)
(* together with the error it raised and its result; the actions apply     *)
(* these operators to the state.                                           *)
(***************************************************************************)
EXTENDS Integers, Sequences, FiniteSets, TLC

VARIABLES days, events, nextId, today, op, pre

vars == <<days, events, nextId, today, op, pre>>

----------------------------------------------------------------------------
(* Bounds of the model *)

MaxIds == 2

MaxDate == 2

MaxReminders == 2

----------------------------------------------------------------------------
(* Values *)

None == 0

NoError == "none"

reminder_not_found_error == "ReminderNotFound"

slot_not_available_error == "SlotNotAvailable"

event_not_found_error == "EventNotFound"

date_lower_than_today_error == "DateLowerThanToday"

EMAIL == "email"

SYSTEM == "system"

time(hour, minute) == hour * 60 + minute

MinutesPerDay == 24 * 60

SlotMinutes == 15

generate_unique_id(counter) == counter

----------------------------------------------------------------------------
(* Inputs *)

Dates == 0 .. MaxDate

StartInputs == {time(10, 0), time(10, 1)}

EndInputs == {time(10, 15), time(10, 30)}

Titles == {"T"}

Descriptions == {"D"}

ReminderMoments == {time(9, 0), time(9, 30)}

ReminderTypes == {EMAIL}

EventIds == 1 .. MaxIds

ReminderIndexes == -1 .. MaxReminders

\* Ranges on the slot grid, on dates that are not past
AlignedStarts == {time(10, 0), time(10, 15)}

AlignedEnds == {time(10, 30)}

----------------------------------------------------------------------------
(* Reminder and Event *)

Reminder(date_time, type) == [date_time |-> date_time, type |-> type]

Event(title, description, date_, start_at, end_at, id) ==
    [title |-> title, description |-> description, date_ |-> date_,
     start_at |-> start_at, end_at |-> end_at, id |-> id, reminders |-> <<>>]

Event_add_reminder(event, date_time, type_) ==
    [event EXCEPT !.reminders = Append(@, Reminder(date_time, type_))]

\* del self.reminders[reminder_index], with Python's 0-based index
DelAt(seq, index) ==
    [k \in 1 .. Len(seq) - 1 |-> IF k <= index THEN seq[k] ELSE seq[k + 1]]

\* Mutant of Event.delete_reminder: no range test, so a negative index counts
\* from the end as "del" does
Event_delete_reminder_Negative(event, reminder_index) ==
    IF -Len(event.reminders) <= reminder_index
       /\ reminder_index < Len(event.reminders)
    THEN [event |-> [event EXCEPT !.reminders =
                        DelAt(@, reminder_index % Len(event.reminders))],
          err |-> NoError]
    ELSE [event |-> event, err |-> reminder_not_found_error]

Event_delete_reminder(event, reminder_index) ==
    IF 0 <= reminder_index /\ reminder_index < Len(event.reminders)
    THEN [event |-> [event EXCEPT !.reminders = DelAt(@, reminder_index)],
          err |-> NoError]
    ELSE [event |-> event, err |-> reminder_not_found_error]

----------------------------------------------------------------------------
(* Day *)

\* Mutant of _init_slots: the loop stops one slot early
RECURSIVE Day_init_slots_Short(_, _)
Day_init_slots_Short(keys, slot_time) ==
    IF slot_time < time(23, 30)
    THEN Day_init_slots_Short(Append(keys, slot_time),
                              (slot_time + SlotMinutes) % MinutesPerDay)
    ELSE keys

\* The keys of Day.slots in insertion order: the while loop of _init_slots.
\* Adding the timedelta and taking .time() wraps around midnight.
RECURSIVE Day_init_slots(_, _)
Day_init_slots(keys, slot_time) ==
    IF slot_time < time(23, 45)
    THEN Day_init_slots(Append(keys, slot_time),
                        (slot_time + SlotMinutes) % MinutesPerDay)
    ELSE keys

SlotKeys == Day_init_slots(<<>>, time(0, 0))

SlotSet == {SlotKeys[k] : k \in 1 .. Len(SlotKeys)}

Day(date_) == [date_ |-> date_, slots |-> [slot \in SlotSet |-> None]]

\* "event_id in day.slots.values()"
Holds(slots, event_id) == \E slot \in SlotSet : slots[slot] = event_id

\* Mutant of RangeKeys: the range closed at its end (slot <= end_at)
RangeKeys_Closed(start_at, end_at) ==
    SelectSeq(SlotKeys, LAMBDA slot : start_at <= slot /\ slot <= end_at)

\* The keys a loop "for slot in self.slots: if start_at <= slot < end_at" acts
\* on, in iteration order
RangeKeys(start_at, end_at) ==
    SelectSeq(SlotKeys, LAMBDA slot : start_at <= slot /\ slot < end_at)

\* Mutant of Day.add_event: the whole range is tested before any slot is
\* assigned
Day_add_event_from_Atomic(slots, keys, k, event_id) ==
    IF \E j \in k .. Len(keys) : slots[keys[j]] # None
    THEN [slots |-> slots, err |-> slot_not_available_error]
    ELSE [slots |-> [slot \in SlotSet |->
                        IF \E j \in k .. Len(keys) : keys[j] = slot
                        THEN event_id
                        ELSE slots[slot]],
          err |-> NoError]

\* Day.add_event: the slots of the range are visited in key order; a raise
\* leaves the assignments already made.
RECURSIVE Day_add_event_from(_, _, _, _)
Day_add_event_from(slots, keys, k, event_id) ==
    IF k > Len(keys)
    THEN [slots |-> slots, err |-> NoError]
    ELSE IF slots[keys[k]] # None
         THEN [slots |-> slots, err |-> slot_not_available_error]
         ELSE Day_add_event_from([slots EXCEPT ![keys[k]] = event_id], keys,
                                 k + 1, event_id)

Day_add_event(slots, event_id, start_at, end_at) ==
    Day_add_event_from(slots, RangeKeys(start_at, end_at), 1, event_id)

\* Mutant of Day.delete_event: only the first slot holding the id is cleared
Day_delete_event_FirstOnly(slots, event_id) ==
    IF Holds(slots, event_id)
    THEN [slots |-> [slots EXCEPT
                        ![CHOOSE slot \in SlotSet :
                            /\ slots[slot] = event_id
                            /\ \A other \in SlotSet :
                                 slots[other] = event_id => slot <= other] = None],
          err |-> NoError]
    ELSE [slots |-> slots, err |-> event_not_found_error]

Day_delete_event(slots, event_id) ==
    IF Holds(slots, event_id)
    THEN [slots |-> [slot \in SlotSet |->
                        IF slots[slot] = event_id THEN None ELSE slots[slot]],
          err |-> NoError]
    ELSE [slots |-> slots, err |-> event_not_found_error]

\* Mutant of Day.update_event: the range is booked without the test of
\* "if self.slots[slot]"
Day_update_event_from_Overwrite(slots, keys, k, event_id) ==
    [slots |-> [slot \in SlotSet |->
                   IF \E j \in k .. Len(keys) : keys[j] = slot
                   THEN event_id
                   ELSE slots[slot]],
     err |-> NoError]

\* Day.update_event: the first loop frees the event's slots, the second books
\* the new range; "if self.slots[slot]" is false for None only (ids are
\* non-empty strings).
RECURSIVE Day_update_event_from(_, _, _, _)
Day_update_event_from(slots, keys, k, event_id) ==
    IF k > Len(keys)
    THEN [slots |-> slots, err |-> NoError]
    ELSE IF slots[keys[k]] # None
         THEN [slots |-> slots, err |-> slot_not_available_error]
         ELSE Day_update_event_from([slots EXCEPT ![keys[k]] = event_id], keys,
                                    k + 1, event_id)

Day_update_event(slots, event_id, start_at, end_at) ==
    Day_update_event_from(
        [slot \in SlotSet |-> IF slots[slot] = event_id THEN None ELSE slots[slot]],
        RangeKeys(start_at, end_at), 1, event_id)

----------------------------------------------------------------------------
(* Calendar *)

\* Position of an id in self.events, 0 when absent
EventIndex(es, event_id) ==
    IF \E k \in 1 .. Len(es) : es[k].id = event_id
    THEN CHOOSE k \in 1 .. Len(es) : es[k].id = event_id
    ELSE 0

\* self.events.pop(event_id)
PopEvent(es, event_id) == SelectSeq(es, LAMBDA e : e.id # event_id)

\* self.events[event_id] = event: replaces in place or appends
PutEvent(es, event) ==
    IF EventIndex(es, event.id) # 0
    THEN [es EXCEPT ![EventIndex(es, event.id)] = event]
    ELSE Append(es, event)

\* if date_ not in self.days: self.days[date_] = Day(date_)
EnsureDay(ds, date_) ==
    IF date_ \in DOMAIN ds
    THEN ds
    ELSE [d \in DOMAIN ds \cup {date_} |-> IF d = date_ THEN Day(date_) ELSE ds[d]]

\* The next Day a scan of self.days.values() visits
FirstDate(dates) == CHOOSE d \in dates : \A other \in dates : d <= other

Result(ds, es, counter, err, ret) ==
    [days |-> ds, events |-> es, nextId |-> counter, err |-> err, ret |-> ret]

\* Mutant of Calendar.add_event: the Day is recorded before the date is checked
Calendar_add_event_DayFirst(cal, now, title, description, date_, start_at, end_at) ==
    LET ds    == EnsureDay(cal.days, date_)
        event == Event(title, description, date_, start_at, end_at,
                       generate_unique_id(cal.nextId))
        r     == Day_add_event(ds[date_].slots, event.id, start_at, end_at)
        ds2   == [ds EXCEPT ![date_].slots = r.slots]
    IN  IF date_ < now
        THEN Result(ds, cal.events, cal.nextId, date_lower_than_today_error, None)
        ELSE IF r.err # NoError
             THEN Result(ds2, cal.events, cal.nextId + 1, r.err, None)
             ELSE Result(ds2, PutEvent(cal.events, event), cal.nextId + 1,
                         NoError, event.id)

Calendar_add_event(cal, now, title, description, date_, start_at, end_at) ==
    IF date_ < now
    THEN Result(cal.days, cal.events, cal.nextId, date_lower_than_today_error, None)
    ELSE LET ds    == EnsureDay(cal.days, date_)
             event == Event(title, description, date_, start_at, end_at,
                            generate_unique_id(cal.nextId))
             r     == Day_add_event(ds[date_].slots, event.id, start_at, end_at)
             ds2   == [ds EXCEPT ![date_].slots = r.slots]
         IN  IF r.err # NoError
             THEN Result(ds2, cal.events, cal.nextId + 1, r.err, None)
             ELSE Result(ds2, PutEvent(cal.events, event), cal.nextId + 1,
                         NoError, event.id)

Calendar_add_reminder(cal, event_id, date_time, type_) ==
    LET k == EventIndex(cal.events, event_id)
    IN  IF k = 0
        THEN Result(cal.days, cal.events, cal.nextId, event_not_found_error, None)
        ELSE Result(cal.days,
                    [cal.events EXCEPT ![k] = Event_add_reminder(@, date_time, type_)],
                    cal.nextId, NoError, None)

\* Mutant of Calendar.find_available_slots: every slot key is listed
Calendar_find_available_slots_All(cal, date_) ==
    IF date_ \in DOMAIN cal.days THEN SlotKeys ELSE <<>>

Calendar_find_available_slots(cal, date_) ==
    IF date_ \in DOMAIN cal.days
    THEN SelectSeq(SlotKeys, LAMBDA slot : cal.days[date_].slots[slot] = None)
    ELSE <<>>

\* Mutant of the scan of delete_event: no Day is cleared
Calendar_delete_event_scan_Skip(ds, dates, event_id) == ds

\* The scan of delete_event: the first Day holding the id is cleared, then break
RECURSIVE Calendar_delete_event_scan(_, _, _)
Calendar_delete_event_scan(ds, dates, event_id) ==
    IF dates = {}
    THEN ds
    ELSE LET d == FirstDate(dates)
         IN  IF Holds(ds[d].slots, event_id)
             THEN [ds EXCEPT ![d].slots = Day_delete_event(@, event_id).slots]
             ELSE Calendar_delete_event_scan(ds, dates \ {d}, event_id)

\* Mutant of Calendar.delete_event: the registry entry is not popped
Calendar_delete_event_KeepsEntry(cal, event_id) ==
    IF EventIndex(cal.events, event_id) = 0
    THEN Result(cal.days, cal.events, cal.nextId, event_not_found_error, None)
    ELSE Result(Calendar_delete_event_scan(cal.days, DOMAIN cal.days, event_id),
                cal.events, cal.nextId, NoError, None)

\* Mutant of Calendar.delete_event: the Days are scanned before the registry
\* is consulted
Calendar_delete_event_ScanFirst(cal, event_id) ==
    IF EventIndex(cal.events, event_id) = 0
    THEN Result(Calendar_delete_event_scan(cal.days, DOMAIN cal.days, event_id),
                cal.events, cal.nextId, event_not_found_error, None)
    ELSE Result(Calendar_delete_event_scan(cal.days, DOMAIN cal.days, event_id),
                PopEvent(cal.events, event_id), cal.nextId, NoError, None)

Calendar_delete_event(cal, event_id) ==
    IF EventIndex(cal.events, event_id) = 0
    THEN Result(cal.days, cal.events, cal.nextId, event_not_found_error, None)
    ELSE Result(Calendar_delete_event_scan(cal.days, DOMAIN cal.days, event_id),
                PopEvent(cal.events, event_id), cal.nextId, NoError, None)

\* Mutant of the closing loop of update_event: the new range is booked with
\* Day.add_event, the event's own slots still in place
RECURSIVE Calendar_update_event_scan_NoClear(_, _, _, _, _)
Calendar_update_event_scan_NoClear(ds, dates, event_id, start_at, end_at) ==
    IF dates = {}
    THEN [days |-> ds, err |-> NoError]
    ELSE LET d == FirstDate(dates)
         IN  IF Holds(ds[d].slots, event_id)
             THEN LET upd == Day_add_event(ds[d].slots, event_id, start_at,
                                           end_at)
                      ds2 == [ds EXCEPT ![d].slots = upd.slots]
                  IN  IF upd.err # NoError
                      THEN [days |-> ds2, err |-> upd.err]
                      ELSE Calendar_update_event_scan_NoClear(
                               ds2, dates \ {d}, event_id, start_at, end_at)
             ELSE Calendar_update_event_scan_NoClear(ds, dates \ {d}, event_id,
                                                     start_at, end_at)

\* The closing loop of update_event when the date is unchanged: every Day that
\* holds the id is cleared and re-booked; a raise ends the loop.
RECURSIVE Calendar_update_event_scan(_, _, _, _, _)
Calendar_update_event_scan(ds, dates, event_id, start_at, end_at) ==
    IF dates = {}
    THEN [days |-> ds, err |-> NoError]
    ELSE LET d == FirstDate(dates)
         IN  IF Holds(ds[d].slots, event_id)
             THEN LET del == Day_delete_event(ds[d].slots, event_id)
                      upd == Day_update_event(del.slots, event_id, start_at,
                                              end_at)
                      ds2 == [ds EXCEPT ![d].slots = upd.slots]
                  IN  IF upd.err # NoError
                      THEN [days |-> ds2, err |-> upd.err]
                      ELSE Calendar_update_event_scan(ds2, dates \ {d}, event_id,
                                                      start_at, end_at)
             ELSE Calendar_update_event_scan(ds, dates \ {d}, event_id,
                                             start_at, end_at)

Calendar_update_event(cal, event_id, title, description, date_, start_at, end_at) ==
    LET i == EventIndex(cal.events, event_id)
    IN  IF i = 0
        THEN Result(cal.days, cal.events, cal.nextId, event_not_found_error, None)
        ELSE IF cal.events[i].date_ # date_
             THEN LET del   == Calendar_delete_event(cal, event_id)
                      event == Event(title, description, date_, start_at, end_at,
                                     event_id)
                      es    == PutEvent(del.events, event)
                      ds    == EnsureDay(del.days, date_)
                      r     == Day_add_event(ds[date_].slots, event_id, start_at,
                                             end_at)
                  IN  Result([ds EXCEPT ![date_].slots = r.slots], es, cal.nextId,
                             r.err, None)
             ELSE LET es == [cal.events EXCEPT
                                ![i].title = title,
                                ![i].description = description,
                                ![i].date_ = date_,
                                ![i].start_at = start_at,
                                ![i].end_at = end_at]
                      u  == Calendar_update_event_scan(cal.days, DOMAIN cal.days, event_id,
                                                       start_at, end_at)
                  IN  Result(u.days, es, cal.nextId, u.err, None)

\* Mutant of find_events: the range is open at its end
Calendar_find_events_HalfOpen(cal, start_at, end_at) ==
    LET InRange(e) == start_at <= e.date_ /\ e.date_ < end_at
        keys == {cal.events[k].date_ :
                    k \in {j \in 1 .. Len(cal.events) : InRange(cal.events[j])}}
    IN  [d \in keys |-> SelectSeq(cal.events, LAMBDA e : InRange(e) /\ e.date_ = d)]

\* find_events: the events of the range grouped by date, each group in the
\* iteration order of self.events
Calendar_find_events(cal, start_at, end_at) ==
    LET InRange(e) == start_at <= e.date_ /\ e.date_ <= end_at
        keys == {cal.events[k].date_ :
                    k \in {j \in 1 .. Len(cal.events) : InRange(cal.events[j])}}
    IN  [d \in keys |-> SelectSeq(cal.events, LAMBDA e : InRange(e) /\ e.date_ = d)]

Calendar_delete_reminder(cal, event_id, reminder_index) ==
    LET k == EventIndex(cal.events, event_id)
    IN  IF k = 0
        THEN Result(cal.days, cal.events, cal.nextId, event_not_found_error, None)
        ELSE LET r == Event_delete_reminder(cal.events[k], reminder_index)
             IN  Result(cal.days, [cal.events EXCEPT ![k] = r.event], cal.nextId,
                        r.err, None)

Calendar_list_reminders(cal, event_id) ==
    LET k == EventIndex(cal.events, event_id)
    IN  IF k = 0
        THEN Result(cal.days, cal.events, cal.nextId, event_not_found_error, None)
        ELSE Result(cal.days, cal.events, cal.nextId, NoError,
                    cal.events[k].reminders)

----------------------------------------------------------------------------
(* State machine: one action per Calendar method *)

Cal == [days |-> days, events |-> events, nextId |-> nextId]

\* pre remembers the calendar as it was before the latest successful add_event
\* and the slots that add booked; it is kept over a delete_event of the id that
\* add returned and dropped by every other call.
NoPre == [set |-> FALSE]

Init ==
    /\ days = [d \in {} |-> Day(d)]
    /\ events = <<>>
    /\ nextId = 1
    /\ today = 1
    /\ op = [name |-> "init", err |-> NoError]
    /\ pre = NoPre

Apply(r) ==
    /\ days' = r.days
    /\ events' = r.events
    /\ nextId' = r.nextId
    /\ UNCHANGED today

\* add_event(title, description, date_, start_at, end_at); the id generator is
\* capped at MaxIds ids
AddEventCall(title, description, date_, start_at, end_at) ==
    \E r \in {Calendar_add_event(Cal, today, title, description, date_,
                                 start_at, end_at)} :
        /\ r.nextId <= MaxIds + 1
        /\ Apply(r)
        /\ op' = [name |-> "add_event", err |-> r.err, ret |-> r.ret,
                  title |-> title, description |-> description, date_ |-> date_,
                  start_at |-> start_at, end_at |-> end_at]
        /\ pre' = IF r.err = NoError
                  THEN [set |-> TRUE, days |-> days, events |-> events,
                        id |-> r.ret,
                        booked |-> {slot \in SlotSet :
                                       r.days[date_].slots[slot] = r.ret}]
                  ELSE NoPre

AddEvent ==
    \E title \in Titles, description \in Descriptions, date_ \in Dates,
       start_at \in StartInputs, end_at \in EndInputs :
        AddEventCall(title, description, date_, start_at, end_at)

\* add_reminder(event_id, date_time, type_); an event keeps at most
\* MaxReminders reminders
AddReminderCall(event_id, date_time, type_) ==
    \E r \in {Calendar_add_reminder(Cal, event_id, date_time, type_)} :
        /\ \A k \in 1 .. Len(r.events) : Len(r.events[k].reminders) <= MaxReminders
        /\ Apply(r)
        /\ op' = IF r.err = NoError
                 THEN [name |-> "add_reminder", err |-> r.err,
                       event_id |-> event_id, date_time |-> date_time,
                       type_ |-> type_]
                 ELSE [name |-> "add_reminder", err |-> r.err,
                       event_id |-> event_id]
        /\ pre' = NoPre

AddReminder ==
    \E event_id \in EventIds, date_time \in ReminderMoments,
       type_ \in ReminderTypes :
        AddReminderCall(event_id, date_time, type_)

FindAvailableSlotsCall(date_) ==
    /\ op' = [name |-> "find_available_slots", err |-> NoError,
              date_ |-> date_, ret |-> Calendar_find_available_slots(Cal, date_)]
    /\ pre' = NoPre
    /\ UNCHANGED <<days, events, nextId, today>>

FindAvailableSlots == \E date_ \in Dates : FindAvailableSlotsCall(date_)

\* update_event(event_id, title, description, date_, start_at, end_at); op
\* keeps the local is_new_date of the call, and the arguments the call got to
\* read
UpdateEventCall(event_id, title, description, date_, start_at, end_at) ==
    \E r \in {Calendar_update_event(Cal, event_id, title, description, date_,
                                    start_at, end_at)},
       i \in {EventIndex(events, event_id)} :
        /\ Apply(r)
        /\ op' = IF i = 0
                 THEN [name |-> "update_event", err |-> r.err,
                       event_id |-> event_id]
                 ELSE [name |-> "update_event", err |-> r.err,
                       event_id |-> event_id, title |-> title,
                       description |-> description, date_ |-> date_,
                       start_at |-> start_at, end_at |-> end_at,
                       is_new_date |-> events[i].date_ # date_]
        /\ pre' = NoPre

UpdateEvent ==
    \E event_id \in EventIds, title \in Titles, description \in Descriptions,
       date_ \in Dates, start_at \in StartInputs, end_at \in EndInputs :
        UpdateEventCall(event_id, title, description, date_, start_at, end_at)

DeleteEventCall(event_id) ==
    \E r \in {Calendar_delete_event(Cal, event_id)} :
        /\ Apply(r)
        /\ op' = [name |-> "delete_event", err |-> r.err, event_id |-> event_id]
        /\ pre' = IF /\ r.err = NoError
                     /\ op.name = "add_event"
                     /\ pre.set
                     /\ pre.id = event_id
                  THEN pre
                  ELSE NoPre

DeleteEvent == \E event_id \in EventIds : DeleteEventCall(event_id)

FindEventsCall(start_at, end_at) ==
    /\ op' = [name |-> "find_events", err |-> NoError, start_at |-> start_at,
              end_at |-> end_at,
              ret |-> Calendar_find_events(Cal, start_at, end_at)]
    /\ pre' = NoPre
    /\ UNCHANGED <<days, events, nextId, today>>

FindEvents ==
    \E start_at \in Dates, end_at \in Dates : FindEventsCall(start_at, end_at)

DeleteReminderCall(event_id, reminder_index) ==
    \E r \in {Calendar_delete_reminder(Cal, event_id, reminder_index)} :
        /\ Apply(r)
        /\ op' = IF r.err = event_not_found_error
                 THEN [name |-> "delete_reminder", err |-> r.err,
                       event_id |-> event_id]
                 ELSE [name |-> "delete_reminder", err |-> r.err,
                       event_id |-> event_id,
                       reminder_index |-> reminder_index]
        /\ pre' = NoPre

DeleteReminder ==
    \E event_id \in EventIds, reminder_index \in ReminderIndexes :
        DeleteReminderCall(event_id, reminder_index)

ListRemindersCall(event_id) ==
    \E r \in {Calendar_list_reminders(Cal, event_id)} :
        /\ Apply(r)
        /\ op' = [name |-> "list_reminders", err |-> r.err,
                  event_id |-> event_id, ret |-> r.ret]
        /\ pre' = NoPre

ListReminders == \E event_id \in EventIds : ListRemindersCall(event_id)

\* The event life cycle and the availability query
Next ==
    \/ AddEvent
    \/ UpdateEvent
    \/ DeleteEvent
    \/ FindAvailableSlots

Spec == Init /\ [][Next]_vars

\* add_event and update_event with ranges on the slot grid and dates from the
\* current date on
AddEventAligned ==
    \E title \in Titles, description \in Descriptions,
       date_ \in {d \in Dates : d >= today},
       start_at \in AlignedStarts, end_at \in AlignedEnds :
        AddEventCall(title, description, date_, start_at, end_at)

UpdateEventAligned ==
    \E event_id \in EventIds, title \in Titles, description \in Descriptions,
       date_ \in {d \in Dates : d >= today},
       start_at \in AlignedStarts, end_at \in AlignedEnds :
        UpdateEventCall(event_id, title, description, date_, start_at, end_at)

\* Every method of Calendar
NextAll ==
    \/ AddEventAligned
    \/ AddReminder
    \/ FindAvailableSlots
    \/ UpdateEventAligned
    \/ DeleteEvent
    \/ FindEvents
    \/ DeleteReminder
    \/ ListReminders

SpecAll == Init /\ [][NextAll]_vars

\* The event life cycle and the reminders of the events
NextReminders ==
    \/ AddEventAligned
    \/ UpdateEventAligned
    \/ DeleteEvent
    \/ AddReminder
    \/ DeleteReminder
    \/ ListReminders

SpecReminders == Init /\ [][NextReminders]_vars

\* The event life cycle and the query by date range
NextFind ==
    \/ AddEvent
    \/ UpdateEventAligned
    \/ DeleteEvent
    \/ FindEvents

SpecFind == Init /\ [][NextFind]_vars

----------------------------------------------------------------------------
(* Vocabulary of the properties *)

Registered(es) == {es[k].id : k \in 1 .. Len(es)}

EventOf(es, event_id) == es[EventIndex(es, event_id)]

\* The dates whose Day holds the id in some slot
DaysHolding(ds, event_id) == {d \in DOMAIN ds : Holds(ds[d].slots, event_id)}

\* The id in a slot of the Day of date_, None when no Day is recorded
SlotAt(ds, date_, slot) ==
    IF date_ \in DOMAIN ds THEN ds[date_].slots[slot] ELSE None

\* Two time ranges with start < end that share an instant
Overlap(s1, e1, s2, e2) == s1 < e1 /\ s2 < e2 /\ s1 < e2 /\ s2 < e1

----------------------------------------------------------------------------
(* C1..C10 *)

\* C1: on a date that is not past, after a successful add_event(d, s1, e1) an
\* add_event(d, s2, e2) whose range overlaps [s1, e1) fails with
\* SlotNotAvailable and the first event keeps every slot it held.
C1_OverlapRejected ==
    [][(/\ op.name = "add_event"
        /\ op.err = NoError
        /\ op'.name = "add_event"
        /\ op'.date_ = op.date_
        /\ op'.date_ >= today
        /\ Overlap(op.start_at, op.end_at, op'.start_at, op'.end_at))
       => /\ op'.err = slot_not_available_error
          /\ \A slot \in SlotSet :
                SlotAt(days, op.date_, slot) = op.ret
                => SlotAt(days', op.date_, slot) = op.ret]_vars

\* C2: every event id stored in a slot of a Day is a key of Calendar.events.
C2_SlotIdsRegistered ==
    \A d \in DOMAIN days : \A slot \in SlotSet :
        days[d].slots[slot] # None => days[d].slots[slot] \in Registered(events)

\* C3: between calls every registered event is booked into at least one slot
\* of exactly one Day, the Day of the event's date.
C3_BookedInOwnDay ==
    \A i \in 1 .. Len(events) :
        DaysHolding(days, events[i].id) = {events[i].date_}

\* C4: with the current date fixed, no registered event has a date earlier
\* than the current date.
C4_NoPastEvents == \A i \in 1 .. Len(events) : events[i].date_ >= today

\* C5: add_event with a date before the current date fails with
\* DateLowerThanToday whatever the other arguments and the calendar are, and
\* changes neither Calendar.days nor Calendar.events.
C5_PastDateRejected ==
    [][(op'.name = "add_event" /\ op'.date_ < today)
       => /\ op'.err = date_lower_than_today_error
          /\ days' = days
          /\ events' = events]_vars

C5_Witness ==
    /\ op.name = "add_event"
    /\ op.date_ < today
    /\ op.err = date_lower_than_today_error
    /\ Len(events) > 0
    /\ \E d \in DOMAIN days : \E slot \in SlotSet : days[d].slots[slot] # None

\* C6: a successful add_event followed at once by delete_event of the returned
\* id frees every slot the event held, leaves every other slot of every Day as
\* it was before the add (a Day the add created is all free), and leaves
\* Calendar.events as it was before the add.
C6_AddDeleteRoundTrip ==
    (op.name = "delete_event" /\ op.err = NoError /\ pre.set) =>
        /\ events = pre.events
        /\ DaysHolding(days, pre.id) = {}
        /\ DOMAIN pre.days \subseteq DOMAIN days
        /\ \A d \in DOMAIN days : \A slot \in SlotSet :
               days[d].slots[slot] = SlotAt(pre.days, d, slot)

C6_Witness ==
    /\ op.name = "delete_event"
    /\ op.err = NoError
    /\ pre.set
    /\ Cardinality(pre.booked) = 2
    /\ Len(pre.events) > 0
    /\ \E d \in DOMAIN days : \E slot \in SlotSet : days[d].slots[slot] # None

\* C7: after a successful update_event that changes the date, no slot of the
\* old date's Day (of any Day but the new date's) holds the id, the same id is
\* registered with the new date, start and end, and the slots holding the id
\* are exactly the slots s of the new date's Day with start <= s < end.
C7_MoveToNewDate ==
    (op.name = "update_event" /\ op.err = NoError /\ op.is_new_date) =>
        /\ op.event_id \in Registered(events)
        /\ EventOf(events, op.event_id).id = op.event_id
        /\ EventOf(events, op.event_id).date_ = op.date_
        /\ EventOf(events, op.event_id).start_at = op.start_at
        /\ EventOf(events, op.event_id).end_at = op.end_at
        /\ \A d \in DOMAIN days \ {op.date_} : ~Holds(days[d].slots, op.event_id)
        /\ op.date_ \in DOMAIN days
        /\ {slot \in SlotSet : days[op.date_].slots[slot] = op.event_id} =
               {slot \in SlotSet : op.start_at <= slot /\ slot < op.end_at}

C7_Witness ==
    /\ op.name = "update_event"
    /\ op.err = NoError
    /\ op.is_new_date
    /\ DaysHolding(days, op.event_id) # {}
    /\ Len(events) = 2
    /\ Cardinality(DOMAIN days) >= 2

\* C8: a successful delete_event(id) leaves id absent from Calendar.events and
\* from every slot of every Day; an event id never occupies slots of more
\* than one Day.
C8_DeleteLeavesNoTrace ==
    /\ \A event_id \in EventIds : Cardinality(DaysHolding(days, event_id)) <= 1
    /\ (op.name = "delete_event" /\ op.err = NoError) =>
           /\ op.event_id \notin Registered(events)
           /\ DaysHolding(days, op.event_id) = {}

C8_Witness ==
    /\ op.name = "delete_event"
    /\ op.err = NoError
    /\ Cardinality(DOMAIN days) >= 2
    /\ Len(events) > 0
    /\ DaysHolding(days, events[1].id) # {}

\* C9: a successful add_event returns an id that was not registered, adds
\* exactly the entry for that id (the given fields, no reminders), assigns the
\* id to exactly the slots s of the date's Day with start <= s < end and leaves
\* every other slot of every Day and every other registry entry unchanged.
C9_AddEventEffect ==
    [][(op'.name = "add_event" /\ op'.err = NoError)
       => /\ op'.ret \notin Registered(events)
          /\ Registered(events') = Registered(events) \cup {op'.ret}
          /\ Len(events') = Len(events) + 1
          /\ EventOf(events', op'.ret) =
                 [title |-> op'.title, description |-> op'.description,
                  date_ |-> op'.date_, start_at |-> op'.start_at,
                  end_at |-> op'.end_at, id |-> op'.ret, reminders |-> <<>>]
          /\ \A event_id \in Registered(events) :
                 EventOf(events', event_id) = EventOf(events, event_id)
          /\ DOMAIN days' = DOMAIN days \cup {op'.date_}
          /\ \A d \in DOMAIN days' : \A slot \in SlotSet :
                 days'[d].slots[slot] =
                     IF /\ d = op'.date_
                        /\ op'.start_at <= slot /\ slot < op'.end_at
                     THEN op'.ret
                     ELSE SlotAt(days, d, slot)]_vars

C9_Witness ==
    /\ op.name = "add_event"
    /\ op.err = NoError
    /\ Len(events) = 2
    /\ days[op.date_].slots[time(10, 0)] = op.ret
    /\ days[op.date_].slots[time(10, 15)] = op.ret
    /\ days[op.date_].slots[time(10, 30)] = None

\* C10: find_available_slots(date) returns exactly the slot keys of the date's
\* Day that hold no event id, in ascending time order, the empty sequence when
\* no Day is recorded for the date, and never a slot that holds the id of a
\* registered event.
C10_AvailableSlots ==
    /\ \A date_ \in Dates :
        LET ret == Calendar_find_available_slots(Cal, date_)
        IN  /\ date_ \notin DOMAIN days => ret = <<>>
            /\ date_ \in DOMAIN days =>
                   {ret[n] : n \in 1 .. Len(ret)} =
                       {slot \in SlotSet : days[date_].slots[slot] = None}
            /\ \A n \in 1 .. Len(ret) - 1 : ret[n] < ret[n + 1]
            /\ \A n \in 1 .. Len(ret) :
                   SlotAt(days, date_, ret[n]) \notin Registered(events)
    /\ op.name = "find_available_slots" =>
           op.ret = Calendar_find_available_slots(Cal, op.date_)

C10_Witness ==
    /\ op.name = "find_available_slots"
    /\ op.date_ \in DOMAIN days
    /\ Len(op.ret) = Len(SlotKeys) - 2
    /\ \E slot \in SlotSet :
           SlotAt(days, op.date_, slot) \in Registered(events)

----------------------------------------------------------------------------
(* C11..C20 *)

\* The Calendar methods that take an event id
IdCalls ==
    {"add_reminder", "update_event", "delete_event", "delete_reminder",
     "list_reminders"}

\* C11: add_reminder, update_event, delete_event, delete_reminder and
\* list_reminders called with an id that is not a key of Calendar.events (never
\* registered, or registered and deleted since) fail with EventNotFound and
\* leave Calendar.events and the slots of every Day unchanged.
C11_UnknownIdRejected ==
    [][(op'.name \in IdCalls /\ op'.event_id \notin Registered(events))
       => /\ op'.err = event_not_found_error
          /\ events' = events
          /\ days' = days]_vars

\* Id 1 is generated by the first add_event that passes the date check, which
\* finds every slot free and registers it: once nextId > 1, id 1 is absent only
\* because it was deleted.
C11_Witness ==
    /\ op.name = "add_reminder"
    /\ op.err = event_not_found_error
    /\ op.event_id = 1
    /\ nextId > 1
    /\ Len(events) > 0
    /\ Len(events[1].reminders) > 0
    /\ DaysHolding(days, events[1].id) # {}

\* C12: for a registered event with reminders R, delete_reminder(id, i) with
\* 0 <= i < len(R) succeeds and list_reminders(id) is then R without its
\* element at position i, the others in their order; with any other i it
\* fails with ReminderNotFound and R is unchanged.
C12_DeleteReminder ==
    [][(op'.name = "delete_reminder" /\ op'.event_id \in Registered(events))
       => LET R    == EventOf(events, op'.event_id).reminders
              i    == op'.reminder_index
              list == Calendar_list_reminders(
                          [days |-> days', events |-> events',
                           nextId |-> nextId'], op'.event_id)
          IN  /\ list.err = NoError
              /\ IF 0 <= i /\ i < Len(R)
                 THEN /\ op'.err = NoError
                      /\ Len(list.ret) = Len(R) - 1
                      /\ list.ret = SubSeq(R, 1, i) \o SubSeq(R, i + 2, Len(R))
                 ELSE /\ op'.err = reminder_not_found_error
                      /\ list.ret = R]_vars

\* Index 1 is valid only for two reminders or more: the second of them was
\* deleted and the first is still listed.
C12_Witness ==
    /\ op.name = "delete_reminder"
    /\ op.err = NoError
    /\ op.reminder_index = 1
    /\ EventOf(events, op.event_id).reminders = <<Reminder(time(9, 30), EMAIL)>>

\* C13: find_events(start_date, end_date) returns a mapping whose keys are
\* exactly the dates d with start_date <= d <= end_date that have a registered
\* event, each key mapped to exactly the registered events of that date, each
\* once and never to an empty sequence; the calendar is unchanged.
C13_FindEvents ==
    [][op'.name = "find_events"
       => /\ days' = days /\ events' = events /\ nextId' = nextId
          /\ DOMAIN op'.ret =
                 {d \in Dates :
                     /\ op'.start_at <= d /\ d <= op'.end_at
                     /\ \E i \in 1 .. Len(events) : events[i].date_ = d}
          /\ \A d \in DOMAIN op'.ret :
                 /\ Len(op'.ret[d]) > 0
                 /\ Len(op'.ret[d]) =
                        Cardinality({i \in 1 .. Len(events) : events[i].date_ = d})
                 /\ \A i \in 1 .. Len(events) :
                        events[i].date_ = d =>
                            Cardinality({n \in 1 .. Len(op'.ret[d]) :
                                            op'.ret[d][n] = events[i]}) = 1]_vars

\* Two events on the last date of the range, found with a range of two dates
C13_Witness ==
    /\ op.name = "find_events"
    /\ op.start_at < op.end_at
    /\ op.end_at \in DOMAIN op.ret
    /\ Len(op.ret[op.end_at]) = 2

\* C14: constructing a Day for any date terminates and yields exactly 95 free
\* slots keyed 00:00, 00:15, ..., 23:30, with no slot at 23:45; every Day the
\* calendar records has these keys.
C14_DaySlots ==
    /\ Len(SlotKeys) = 95
    /\ \A k \in 1 .. Len(SlotKeys) : SlotKeys[k] = (k - 1) * 15
    /\ SlotKeys[Len(SlotKeys)] = time(23, 30)
    /\ time(23, 45) \notin SlotSet
    /\ \A date_ \in Dates :
           /\ Day(date_).date_ = date_
           /\ DOMAIN Day(date_).slots = {(k - 1) * 15 : k \in 1 .. 95}
           /\ \A slot \in DOMAIN Day(date_).slots : Day(date_).slots[slot] = None
    /\ \A d \in DOMAIN days :
           /\ days[d].date_ = d
           /\ DOMAIN days[d].slots = {(k - 1) * 15 : k \in 1 .. 95}

\* An add_event of a range without slot keys has just created the Day of its
\* date: the Day stands as constructed.
C14_Witness ==
    /\ op.name = "add_event"
    /\ op.err = NoError
    /\ pre.set
    /\ op.date_ \notin DOMAIN pre.days
    /\ Cardinality(DOMAIN days[op.date_].slots) = 95
    /\ \A slot \in DOMAIN days[op.date_].slots : days[op.date_].slots[slot] = None

\* C15: Day.add_event(event_id, start, end) is not atomic: when a slot of
\* [start, end) is occupied the call fails with SlotNotAvailable, the first
\* occupied slot of the range keeps the id it held, every slot of the range
\* before it has been assigned event_id and stays so, and every other slot of
\* the Day is unchanged.  Day.add_event is called by add_event (line 91) with
\* the id just generated and by a date-changing update_event (line 117) after
\* its delete_event.
C15_PartialBooking ==
    [][(\/ op'.name = "add_event" /\ op'.err # date_lower_than_today_error
        \/ /\ op'.name = "update_event"
           /\ op'.err # event_not_found_error
           /\ op'.is_new_date)
       => \A event_id \in {IF op'.name = "add_event"
                           THEN generate_unique_id(nextId)
                           ELSE op'.event_id} :
          \A ds \in {IF op'.name = "add_event"
                     THEN days
                     ELSE Calendar_delete_event(Cal, event_id).days} :
          \A range \in {{slot \in SlotSet :
                            op'.start_at <= slot /\ slot < op'.end_at}} :
          \A occupied \in {{slot \in range :
                               SlotAt(ds, op'.date_, slot) # None}} :
              occupied # {} =>
                  \A c \in {CHOOSE slot \in occupied :
                                \A other \in occupied : slot <= other} :
                      /\ op'.err = slot_not_available_error
                      /\ \A slot \in SlotSet :
                             days'[op'.date_].slots[slot] =
                                 IF slot \in range /\ slot < c
                                 THEN event_id
                                 ELSE SlotAt(ds, op'.date_, slot)]_vars

\* A failed add_event has left its id in 10:00, before the occupied 10:15
C15_Witness ==
    /\ op.name = "add_event"
    /\ op.err = slot_not_available_error
    /\ days[op.date_].slots[time(10, 0)] = nextId - 1
    /\ nextId - 1 \notin Registered(events)
    /\ days[op.date_].slots[time(10, 15)] \in Registered(events)

\* C16: after a successful update_event that keeps the date, the event is
\* registered with the new start and end and the slots holding its id are
\* exactly the slots s of the date's Day with start <= s < end, whatever range
\* the event was created or last updated with.
C16_SameDateRebooked ==
    (op.name = "update_event" /\ op.err = NoError /\ ~op.is_new_date) =>
        /\ EventOf(events, op.event_id).date_ = op.date_
        /\ EventOf(events, op.event_id).start_at = op.start_at
        /\ EventOf(events, op.event_id).end_at = op.end_at
        /\ \A d \in DOMAIN days \ {op.date_} : ~Holds(days[d].slots, op.event_id)
        /\ {slot \in SlotSet : SlotAt(days, op.date_, slot) = op.event_id} =
               {slot \in SlotSet : op.start_at <= slot /\ slot < op.end_at}

\* C17: an update_event that keeps the date never conflicts with the event's
\* own booking: when no slot s of the date's Day with start <= s < end holds a
\* different id, the call does not fail with SlotNotAvailable, also when the
\* new range overlaps or equals the slots the event holds.
C17_NoSelfConflict ==
    [][(/\ op'.name = "update_event"
        /\ op'.err # event_not_found_error
        /\ ~op'.is_new_date
        /\ \A slot \in SlotSet :
               (op'.start_at <= slot /\ slot < op'.end_at)
               => SlotAt(days, op'.date_, slot) \in {None, op'.event_id})
       => op'.err = NoError]_vars

\* The event holds 10:00 and 10:15 after a successful update that kept its
\* date.  The update re-books only an event that held a slot, and the ranges
\* of the model hold slots among 10:00 and 10:15 only: the new range covers
\* the slots the event held before.
C17_Witness ==
    /\ op.name = "update_event"
    /\ op.err = NoError
    /\ ~op.is_new_date
    /\ days[op.date_].slots[time(10, 0)] = op.event_id
    /\ days[op.date_].slots[time(10, 15)] = op.event_id
    /\ Len(events) = 2

\* C18: an update_event (same date or changed date) that fails with
\* SlotNotAvailable leaves the calendar as it was before the call: the event
\* registered with its previous date, start and end, holding the slots it
\* held, and no other slot of any Day changed.
C18_FailedUpdateNoEffect ==
    [][(op'.name = "update_event" /\ op'.err = slot_not_available_error)
       => /\ events' = events
          /\ days' = days]_vars

\* C19: a call of add_event, update_event, delete_event, add_reminder,
\* delete_reminder or list_reminders that concerns an event id X, whether it
\* succeeds or fails, leaves every other registered event Y as it was: Y's
\* registered fields and reminders, and the set of slots holding Y's id.
\* add_event concerns the id it generates, which is not registered.
C19_OthersUndisturbed ==
    [][\A others \in {{y \in Registered(events) :
                          op'.name = "add_event" \/ op'.event_id # y}} :
          /\ \A y \in others :
                 /\ y \in Registered(events')
                 /\ EventOf(events', y) = EventOf(events, y)
          /\ \A d \in DOMAIN days' :
                 \/ d \in DOMAIN days /\ days'[d] = days[d]
                 \/ \A slot \in SlotSet :
                        days'[d].slots[slot] # SlotAt(days, d, slot)
                        => /\ days'[d].slots[slot] \notin others
                           /\ SlotAt(days, d, slot) \notin others]_vars

\* A failed update_event of one event next to another event that holds slots
\* and has reminders
C19_Witness ==
    /\ op.name = "update_event"
    /\ op.err = slot_not_available_error
    /\ \E i \in 1 .. Len(events) :
           /\ events[i].id # op.event_id
           /\ Len(events[i].reminders) > 0
           /\ days[op.date_].slots[time(10, 15)] = events[i].id
    /\ days[op.date_].slots[time(10, 0)] = op.event_id

\* C20: a successful update_event(id, ...) leaves the reminders of the event
\* unchanged: list_reminders(id) returns the same reminders in the same order
\* after the update as before it, whether the date is kept or changed.
C20_UpdateKeepsReminders ==
    [][(op'.name = "update_event" /\ op'.err = NoError)
       => Calendar_list_reminders([days |-> days', events |-> events',
                                   nextId |-> nextId'], op'.event_id).ret
              = EventOf(events, op'.event_id).reminders]_vars

====
